---- MODULE Spec2Model ----
(***************************************************************************)
(* Model of the speedtest controller: plugin loading (SpeedTest::new, the  *)
(* readiness-gated launcher), discovery (get_provider_map), the nested     *)
(* traversal of main that builds the result tree, the release of the       *)
(* plugin handles when main returns, and the JSON-RPC adapter.             *)
(***************************************************************************)
EXTENDS Integers, Sequences, FiniteSets, TLC

\* ---------------------------------------------------------------- bounds
\* lines one launcher reads before the model stops feeding it
MaxLines == 2
\* descriptors (proxies and tests) returned by all discovery calls together
MaxDescriptors == 4
\* calls the adapter specification makes on the adapters
MaxAdapterCalls == 2
\* times the discovery specification runs the two sweeps
MaxSweeps == 2
\* configure calls the plugin-hello specification makes
MaxConfigure == 2

\* ------------------------------------------------------------ input sets
\* the keys of ControllerConfig.plugins
Plugins == {"A", "B"}
\* URI schemes a PluginConfig.source may carry
Schemes == {"file", "docker", "http"}
ProxyNames == {"p1", "p2"}
TestNames == {"t1", "t2"}
\* the two pipes of the child process
Streams == {"stdout", "stderr"}

\* A line is a sequence of tokens: "L" is the literal text "Listen on ",
\* "a" is text that is a valid host:port, "x" is any other text.
\* BadLine is a line the LinesCodec cannot decode (read error).
BadLine == <<"#">>
Lines == { <<"x">>, <<"L">>, <<"L", "a">>, <<"L", "x">>, <<"x", "L", "a">>, BadLine }

EmptyMap == [k \in {} |-> 0]
Put(m, k, v) == [x \in (DOMAIN m) \cup {k} |-> IF x = k THEN v ELSE m[x]]

VARIABLES
    pc,          \* phase of main: loading, proxy_discovery, test_discovery,
                 \* executing, done, dropped_tests, dropped_proxies, exited,
                 \* panicked (and "adapter" in SpecAdapter)
    scheme,      \* scheme[p]: the scheme of plugin p's configured source
    lstate,      \* lstate[p]: position of load_json_rpc_plugin(p)
    loadResult,  \* loadResult[p]: what load_json_rpc_plugin(p) returned
    procState,   \* procState[p]: none / alive / killed (the Child of p)
    consumed,    \* consumed[p]: lines the launcher of p has read, in order
    ended,       \* ended[p][s]: the launcher saw end-of-stream on pipe s
    endpoint,    \* endpoint[p]: value the launcher returned for p
    registry,    \* SpeedTest.plugin_map (set of plugin names with a handle)
    callCount,   \* callCount[p][m]: remote calls of method m issued to p
    log,         \* records emitted through log::info! / log::error!
    discRes,     \* results of the calls of the running discovery sweep
    proxyProviders, \* ProxyProviderMap: name -> sequence of ProtocolDescriptor
    testProviders,  \* TestProviderMap: name -> sequence of TestDescriptor
    ppOrder,     \* iteration order of the proxy_providers HashMap
    tpOrder,     \* iteration order of the test_providers HashMap
    cur,         \* cursor of the traversal in main
    acc,         \* the HashMaps under collection at each nesting level
    setupRes,    \* result of every set-up call made, keyed <<pp, i>>
    runRes,      \* result of every run_test call made, keyed <<pp, i, tp, j>>
    output,      \* Output.test_results once main has collected it
    inflight,    \* requests sent to plugins and not yet answered
    answers,     \* answers[<<p, m>>]: what plugin p answers to discovery call m
    prev,        \* the maps of the sweeps before the running ones (SpecDiscovery)
    reply,       \* what the last adapter method returned (SpecAdapter)
    configure,   \* configure[c]: position of call c of plugin-hello's handler
    child,       \* child[c]: the gost process spawned by configure call c
    helloPlugin, \* HelloPlugin behind the Arc<Mutex<..>> (process: 0 is None)
    mutex        \* the call holding the MutexGuard (0: unlocked)

vars == << pc, scheme, lstate, loadResult, procState, consumed, ended, endpoint,
           registry, callCount, log, discRes, proxyProviders, testProviders,
           ppOrder, tpOrder, cur, acc, setupRes, runRes, output,
           inflight, answers, prev, reply,
           configure, child, helloPlugin, mutex >>

loadVars == << scheme, lstate, loadResult, procState, consumed, ended, endpoint >>
discVars == << discRes, proxyProviders, testProviders, ppOrder, tpOrder >>
execVars == << cur, acc, setupRes, runRes, output >>
helloVars == << configure, child, helloPlugin, mutex >>
rpcVars == << inflight, answers, prev, reply, helloVars >>

Methods == {"init", "metadata", "tests", "setup_proxy", "run_test",
            "data_transforms", "parse_protocol"}

\* cur.conn = 0: no connection is open (connections are numbered from 1)
NoCur == [pp |-> 0, p |-> 0, tp |-> 0, t |-> 0, conn |-> 0]
StartCur == [pp |-> 1, p |-> 1, tp |-> 1, t |-> 1, conn |-> 0]
NoAcc == [results |-> EmptyMap, proxies |-> EmptyMap, tps |-> EmptyMap, tests |-> EmptyMap]
NoPrev == [sweep |-> 1, registry |-> {}, proxies |-> EmptyMap, tests |-> EmptyMap]
NoReply == [raw |-> "none"]

\* the configure calls a client makes on plugin-hello
HelloCalls == 1..MaxConfigure
\* let hello_plugin: Arc<Mutex<HelloPlugin>> = Default::default()
NoHello ==
    /\ configure = [c \in HelloCalls |-> [at |-> "idle"]]
    /\ child = [c \in HelloCalls |-> "none"]
    /\ helloPlugin = [process |-> 0]
    /\ mutex = 0

\* ------------------------------------------------------ process.rs: regex
\* Regex "Listen on (.+)": leftmost "Listen on " followed by at least one
\* more character; the group is the rest of the line.
MatchStarts(line) == { i \in 1..(Len(line) - 1) : line[i] = "L" }
Matches(line) == line # BadLine /\ MatchStarts(line) # {}
FirstMatch(line) == CHOOSE i \in MatchStarts(line) : \A j \in MatchStarts(line) : i <= j
Capture(line) == SubSeq(line, FirstMatch(line) + 1, Len(line))

\* the closure |[endpoint]| endpoint.to_owned() of load_json_rpc_plugin
Transform(group) == group

\* the value returned once the line just read matched
LauncherReturnFirstSeen(cons) ==
    LET hits == { i \in 1..Len(cons) : "L" \in { cons[i][k] : k \in 1..Len(cons[i]) } }
        i0 == CHOOSE i \in hits : \A j \in hits : i <= j
    IN  Transform(SubSeq(cons[i0], 2, Len(cons[i0])))
LauncherReturn(cons) == Transform(Capture(cons[Len(cons)]))

\* select!: the else branch runs when every stream has returned None
SelectExhaustedEither(e) == e["stdout"] \/ e["stderr"]
SelectExhausted(e) == e["stdout"] /\ e["stderr"]

\* Url::parse(&format!("ws://{}", endpoint))
UrlParses(ep) == ep = <<"a">>

\* ----------------------------------------------------------------- Init
Init ==
    /\ pc = "loading"
    /\ scheme \in [Plugins -> Schemes]
    /\ lstate = [p \in Plugins |-> "start"]
    /\ loadResult = [p \in Plugins |-> "pending"]
    /\ procState = [p \in Plugins |-> "none"]
    /\ consumed = [p \in Plugins |-> << >>]
    /\ ended = [p \in Plugins |-> [s \in Streams |-> FALSE]]
    /\ endpoint = [p \in Plugins |-> << >>]
    /\ registry = {}
    /\ callCount = [p \in Plugins |-> [m \in Methods |-> 0]]
    /\ log = {}
    /\ discRes = EmptyMap
    /\ proxyProviders = EmptyMap
    /\ testProviders = EmptyMap
    /\ ppOrder = << >>
    /\ tpOrder = << >>
    /\ cur = NoCur
    /\ acc = NoAcc
    /\ setupRes = EmptyMap
    /\ runRes = EmptyMap
    /\ output = EmptyMap
    /\ inflight = {}
    /\ answers = EmptyMap
    /\ prev = NoPrev
    /\ reply = NoReply
    /\ NoHello

\* --------------------------------------------------------------- panics
\* A panic inside one of the futures joined by SpeedTest::new unwinds
\* through main: every in-flight construction is dropped, every Child is
\* killed (kill_on_drop) and no later phase runs.
Panic(p, why) ==
    /\ pc' = "panicked"
    /\ lstate' = [q \in Plugins |->
                    IF q = p THEN "panicked"
                    ELSE IF lstate[q] = "done" THEN "done" ELSE "cancelled"]
    /\ loadResult' = [q \in Plugins |->
                    IF q = p THEN why
                    ELSE IF lstate[q] = "done" THEN loadResult[q] ELSE "Cancelled"]
    /\ procState' = [q \in Plugins |->
                    IF procState[q] = "alive" THEN "killed" ELSE procState[q]]
    /\ UNCHANGED << scheme, endpoint, registry, callCount, log >>
    /\ UNCHANGED discVars
    /\ UNCHANGED execVars
    /\ UNCHANGED rpcVars

\* ------------------------------------------------ adapter (json_rpc.rs)
\* ControllerConfig.connection_string
ConnectionString == "cs"
\* JSONRPCPlugin.config of plugin p
ConfigOf(p) == << "config", p >>

\* the method name each Plugin method of JSONRPCPlugin hands to
\* client.request
WireNameConfigure ==
    [init |-> "init", setup_proxy |-> "configure", metadata |-> "metadata",
     tests |-> "tests", run_test |-> "run_test",
     data_transforms |-> "data_transforms", parse_protocol |-> "parse_protocol"]
WireName ==
    [init |-> "init", setup_proxy |-> "setup_proxy", metadata |-> "metadata",
     tests |-> "tests", run_test |-> "run_test",
     data_transforms |-> "data_transforms", parse_protocol |-> "parse_protocol"]

\* rpc_params![..] of each method; a is the tuple of the method's arguments
RpcParams(p, m, a) ==
    CASE m = "init" -> << ConfigOf(p) >>
      [] m = "setup_proxy" -> << a[1] >>
      [] m = "run_test" -> << a[1].name, a[2] >>
      [] m = "parse_protocol" -> << a[1] >>
      [] OTHER -> << >>

\* the request Plugin method m of p's adapter sends
Request(p, m, a) ==
    [plugin |-> p, cap |-> m, method |-> WireName[m], params |-> RpcParams(p, m, a)]

\* What comes back for a request: a success response whose result decodes
\* into the method's return type ("result") or does not ("bad_result"), an
\* error response ("error_response"), or no response because the channel
\* failed ("transport_failure").
RawReplies == {"result", "bad_result", "error_response", "transport_failure"}

\* run_test returns serde_json::Value: every result decodes into it
RawRepliesFor(m) == IF m = "run_test" THEN RawReplies \ {"bad_result"} ELSE RawReplies

\* client.request(..).await? followed by serde_json::from_value(result)?;
\* run_test returns the result undecoded
AdapterResult(m, raw) ==
    IF raw \in {"error_response", "transport_failure"} THEN "ClientError"
    ELSE IF raw = "bad_result" /\ m # "run_test" THEN "APIBadResponse"
    ELSE "Ok"

\* ------------------------------------------- speedtest.rs / process.rs
SchemeSupportedDocker(s) == s \in {"file", "docker"}
SchemeSupported(s) == s = "file"

\* load_json_rpc_plugin up to the first suspension: the scheme match and,
\* for "file", the spawn at the head of create_process_and_wait_for_pattern
LoadStart(p) ==
    /\ pc = "loading"
    /\ lstate[p] = "start"
    /\ IF ~SchemeSupported(scheme[p])
       THEN /\ lstate' = [lstate EXCEPT ![p] = "done"]
            /\ loadResult' = [loadResult EXCEPT ![p] = "UnexpectedScheme"]
            /\ UNCHANGED << pc, scheme, procState, consumed, ended, endpoint,
                            registry, callCount, log >>
            /\ UNCHANGED discVars
            /\ UNCHANGED execVars
            /\ UNCHANGED rpcVars
       ELSE \E spawned \in BOOLEAN :
              IF spawned
              THEN /\ lstate' = [lstate EXCEPT ![p] = "waiting"]
                   /\ procState' = [procState EXCEPT ![p] = "alive"]
                   /\ UNCHANGED << pc, scheme, loadResult, consumed, ended, endpoint,
                                   registry, callCount, log >>
                   /\ UNCHANGED discVars
                   /\ UNCHANGED execVars
                   /\ UNCHANGED rpcVars
              ELSE \* .expect("failed to execute process")
                   /\ Panic(p, "PanicSpawn")
                   /\ UNCHANGED << consumed, ended >>

\* one turn of the launcher's loop in which pipe s yields a line
LauncherLine(p, s, line) ==
    /\ pc = "loading"
    /\ lstate[p] = "waiting"
    /\ ~ended[p][s]
    /\ Len(consumed[p]) < MaxLines
    /\ IF line = BadLine
       THEN \* data.expect("fail on stdout!") / ("fail on stderr!")
            /\ Panic(p, "PanicRead")
            /\ UNCHANGED << consumed, ended >>
       ELSE /\ consumed' = [consumed EXCEPT ![p] = Append(@, line)]
            /\ IF Matches(line)
               THEN /\ endpoint' = [endpoint EXCEPT ![p] = LauncherReturn(consumed'[p])]
                    /\ lstate' = [lstate EXCEPT ![p] = "connecting"]
               ELSE UNCHANGED << endpoint, lstate >>
            /\ UNCHANGED << pc, scheme, loadResult, procState, ended,
                            registry, callCount, log >>
            /\ UNCHANGED discVars
            /\ UNCHANGED execVars
            /\ UNCHANGED rpcVars

\* one turn of the launcher's loop in which pipe s reports end-of-stream
LauncherEof(p, s) ==
    /\ pc = "loading"
    /\ lstate[p] = "waiting"
    /\ ~ended[p][s]
    /\ LET e == [ended[p] EXCEPT ![s] = TRUE]
       IN  IF SelectExhausted(e)
           THEN \* else => break; panic!("The process did not give any output ...")
                /\ Panic(p, "PanicNoMatch")
                /\ ended' = [ended EXCEPT ![p] = e]
                /\ UNCHANGED consumed
           ELSE /\ ended' = [ended EXCEPT ![p] = e]
                /\ UNCHANGED << pc, scheme, lstate, loadResult, procState, consumed,
                                endpoint, registry, callCount, log >>
                /\ UNCHANGED discVars
                /\ UNCHANGED execVars
                /\ UNCHANGED rpcVars

\* the Child once JSONRPCPlugin::new has returned: on Ok it moves into the
\* FileJSONRPCPlugin, on Err the ? returns and drops it (kill_on_drop)
ProcessAfterConnectLeaked(res) == "alive"
ProcessAfterConnect(res) == IF res = "Ok" THEN "alive" ELSE "killed"

\* JSONRPCPlugin::new(&endpoint, config) and the Ok(Arc::new(..)) after it
Connect(p) ==
    /\ pc = "loading"
    /\ lstate[p] = "connecting"
    /\ \E handshake \in BOOLEAN :
         LET res == IF ~UrlParses(endpoint[p]) THEN "ParseError"
                    ELSE IF ~handshake THEN "WsHandshakeError"
                    ELSE "Ok"
         IN  /\ loadResult' = [loadResult EXCEPT ![p] = res]
             /\ procState' = [procState EXCEPT ![p] = ProcessAfterConnect(res)]
             /\ endpoint' = [endpoint EXCEPT ![p] = IF res = "Ok" THEN @ ELSE << >>]
    /\ lstate' = [lstate EXCEPT ![p] = "done"]
    /\ consumed' = [consumed EXCEPT ![p] = << >>]
    /\ ended' = [ended EXCEPT ![p] = [s \in Streams |-> FALSE]]
    /\ UNCHANGED << pc, scheme, registry, callCount, log >>
    /\ UNCHANGED discVars
    /\ UNCHANGED execVars
    /\ UNCHANGED rpcVars

\* PluginLoaderError: UnexpectedScheme(source), or PluginError(#[from] ..)
\* for the ParseError and WsHandshakeError of JSONRPCPlugin::new
LoaderError(res) == IF res = "UnexpectedScheme" THEN "UnexpectedScheme" ELSE "PluginError"

\* the filter_map of SpeedTest::new over the joined results
LoadedPlugins(results) == { p \in DOMAIN results : results[p] = "Ok" }
LoadLog(results) ==
    { [kind |-> "loaded", plugin |-> p] : p \in { q \in DOMAIN results : results[q] = "Ok" } }
    \cup
    { [kind |-> "load_error", plugin |-> p, error |-> LoaderError(results[p])] :
          p \in { q \in DOMAIN results : results[q] # "Ok" } }

\* join_all(..).await of SpeedTest::new is ready once every joined future is
JoinAllReadyAny(ls) == \E p \in Plugins : ls[p] = "done"
JoinAllReady(ls) == \A p \in Plugins : ls[p] = "done"

\* join_all over plugin_map.clone(): the first poll sends the request of
\* every plugin of the registry
SweepRequests(reg, m, a) == { Request(p, m, a) : p \in reg }
CountSweep(cc, reg, m) ==
    [p \in Plugins |-> IF p \in reg THEN [cc[p] EXCEPT ![WireName[m]] = @ + 1] ELSE cc[p]]

\* SpeedTest::new returns once join_all has every result; main goes on to
\* get_proxy_provider, which sends its parse_protocol requests
SpeedTestNew ==
    /\ pc = "loading"
    /\ JoinAllReady(lstate)
    /\ registry' = LoadedPlugins(loadResult)
    /\ log' = log \cup LoadLog(loadResult)
    /\ pc' = "proxy_discovery"
    /\ loadResult' = [p \in Plugins |-> "taken"]
    /\ inflight' = SweepRequests(registry', "parse_protocol", << ConnectionString >>)
    /\ callCount' = CountSweep(callCount, registry', "parse_protocol")
    /\ UNCHANGED << scheme, lstate, procState, consumed, ended, endpoint >>
    /\ UNCHANGED discVars
    /\ UNCHANGED execVars
    /\ UNCHANGED << answers, prev, reply, helloVars >>

\* ------------------------------------------------- discovery (speedtest.rs)
\* The name sequences a plugin may answer with, up to length n.  Names are
\* only ever compared with names of the same provider, so the sequences are
\* taken up to renaming: a non-empty one starts with the name first.
SeqsUpTo(S, first, n) ==
    { f \in UNION { [1..k -> S] : k \in 0..n } : Len(f) > 0 => f[1] = first }
Perms(S) == { f \in [1..Cardinality(S) -> S] : \A i, j \in 1..Cardinality(S) : f[i] = f[j] => i = j }
RECURSIVE SumLen(_)
\* number of descriptors in the Ok results of a sweep
SumLen(res) ==
    IF DOMAIN res = {} THEN 0
    ELSE LET p == CHOOSE q \in DOMAIN res : TRUE
             rest == [q \in (DOMAIN res) \ {p} |-> res[q]]
         IN  (IF res[p].ok THEN Len(res[p].val) ELSE 0) + SumLen(rest)

RECURSIVE MapLen(_)
\* number of descriptors in a provider map
MapLen(m) ==
    IF DOMAIN m = {} THEN 0
    ELSE LET p == CHOOSE q \in DOMAIN m : TRUE
         IN  Len(m[p]) + MapLen([q \in (DOMAIN m) \ {p} |-> m[q]])

\* what a plugin answers to parse_protocol: the descriptor's content is the
\* plugin's private data, here the pair of the plugin and the position
ProtocolDescriptors(p, names) ==
    [i \in 1..Len(names) |-> [name |-> names[i], content |-> << p, i >>]]
TestDescriptors(names) == [i \in 1..Len(names) |-> [name |-> names[i]]]

Incr(cc, p, m) == [cc EXCEPT ![p][m] = @ + 1]

\* the filter_map of get_provider_map: Ok(vec) is kept under the plugin's
\* name, Err(_) is dropped
GetProviderMapKeepAll(results) ==
    [p \in DOMAIN results |-> IF results[p].ok THEN results[p].val ELSE << >>]
GetProviderMap(results) ==
    [p \in { q \in DOMAIN results : results[q].ok } |-> results[p].val]

\* get_provider_map works on plugin_map.clone(): the registry keeps every
\* plugin, whatever its call returned
RegistryAfterSweepOkOnly(reg, results) == { p \in reg : results[p].ok }
RegistryAfterSweep(reg, results) == reg

\* What plugin p answers to discovery call m, given the candidates: a plugin
\* answers a call it has answered before the way it answered it then.
AnswersTo(p, m, candidates) ==
    IF << p, m >> \in DOMAIN answers THEN { answers[<< p, m >>] } ELSE candidates

\* one parse_protocol call of get_proxy_provider returns
ParseProtocolReturn(p) ==
    /\ pc = "proxy_discovery"
    /\ p \in registry
    /\ p \notin DOMAIN discRes
    /\ Request(p, "parse_protocol", << ConnectionString >>) \in inflight
    /\ \E r \in AnswersTo(p, "parse_protocol",
                {[ok |-> FALSE, err |-> "PluginError"]}
                \cup { [ok |-> TRUE, val |-> ProtocolDescriptors(p, names)] :
                         names \in SeqsUpTo(ProxyNames, "p1", MaxDescriptors - SumLen(discRes)) }) :
          /\ discRes' = Put(discRes, p, r)
          /\ answers' = Put(answers, << p, "parse_protocol" >>, r)
    /\ inflight' = inflight \ { Request(p, "parse_protocol", << ConnectionString >>) }
    /\ UNCHANGED << pc, registry, callCount, log, proxyProviders, testProviders, ppOrder, tpOrder >>
    /\ UNCHANGED loadVars
    /\ UNCHANGED execVars
    /\ UNCHANGED << prev, reply, helloVars >>

\* get_proxy_provider returns the collected map; main goes on to
\* get_test_provider, which sends its tests requests
GetProxyProvider ==
    /\ pc = "proxy_discovery"
    /\ DOMAIN discRes = registry
    /\ proxyProviders' = GetProviderMap(discRes)
    /\ ppOrder' \in Perms(DOMAIN proxyProviders')
    /\ registry' = RegistryAfterSweep(registry, discRes)
    /\ discRes' = EmptyMap
    /\ pc' = "test_discovery"
    /\ inflight' = SweepRequests(registry', "tests", << >>)
    /\ callCount' = CountSweep(callCount, registry', "tests")
    /\ UNCHANGED << log, testProviders, tpOrder >>
    /\ UNCHANGED loadVars
    /\ UNCHANGED execVars
    /\ UNCHANGED << answers, prev, reply, helloVars >>

\* one tests call of get_test_provider returns
TestsReturn(p) ==
    /\ pc = "test_discovery"
    /\ p \in registry
    /\ p \notin DOMAIN discRes
    /\ Request(p, "tests", << >>) \in inflight
    /\ \E r \in AnswersTo(p, "tests",
                {[ok |-> FALSE, err |-> "PluginError"]}
                \cup { [ok |-> TRUE, val |-> TestDescriptors(names)] :
                         names \in SeqsUpTo(TestNames, "t1", MaxDescriptors - MapLen(proxyProviders) - SumLen(discRes)) }) :
          /\ discRes' = Put(discRes, p, r)
          /\ answers' = Put(answers, << p, "tests" >>, r)
    /\ inflight' = inflight \ { Request(p, "tests", << >>) }
    /\ UNCHANGED << pc, registry, callCount, log, proxyProviders, testProviders, ppOrder, tpOrder >>
    /\ UNCHANGED loadVars
    /\ UNCHANGED execVars
    /\ UNCHANGED << prev, reply, helloVars >>

\* get_test_provider returns the collected map; main enters the traversal
GetTestProvider ==
    /\ pc = "test_discovery"
    /\ DOMAIN discRes = registry
    /\ testProviders' = GetProviderMap(discRes)
    /\ tpOrder' \in Perms(DOMAIN testProviders')
    /\ registry' = RegistryAfterSweep(registry, discRes)
    /\ discRes' = EmptyMap
    /\ pc' = "executing"
    /\ cur' = StartCur
    /\ UNCHANGED << callCount, log, proxyProviders, ppOrder >>
    /\ UNCHANGED << acc, setupRes, runRes, output >>
    /\ UNCHANGED loadVars
    /\ UNCHANGED rpcVars

\* A caller of the public get_proxy_provider / get_test_provider that runs
\* the two sweeps again over the same registry (SpecDiscovery): it keeps the
\* maps it got and sends the parse_protocol requests anew.
Rediscover ==
    /\ pc = "executing"
    /\ cur = StartCur
    /\ inflight = {}
    /\ prev.sweep < MaxSweeps
    /\ prev' = [sweep |-> prev.sweep + 1, registry |-> registry,
                proxies |-> proxyProviders, tests |-> testProviders]
    /\ proxyProviders' = EmptyMap
    /\ testProviders' = EmptyMap
    /\ ppOrder' = << >>
    /\ tpOrder' = << >>
    /\ cur' = NoCur
    /\ pc' = "proxy_discovery"
    /\ inflight' = SweepRequests(registry, "parse_protocol", << ConnectionString >>)
    /\ callCount' = CountSweep(callCount, registry, "parse_protocol")
    /\ UNCHANGED << registry, log, discRes, acc, setupRes, runRes, output, answers, reply, helloVars >>
    /\ UNCHANGED loadVars

\* ------------------------------------------------------ traversal (main.rs)
\* the test providers crossed with one proxy: stream::iter(test_providers.iter())
TestProvidersForSameOnly(pp) == SelectSeq(tpOrder, LAMBDA tp : tp = pp)
TestProvidersFor(pp) == tpOrder

CurPP == ppOrder[cur.pp]
CurProxy == proxyProviders[CurPP][cur.p]
CurTP == TestProvidersFor(CurPP)[cur.tp]
CurTest == testProviders[CurTP][cur.t]

\* what the plugin answers: every successful set-up call opens a new
\* connection and every successful run_test call yields a new measurement
NewConn == Cardinality(DOMAIN setupRes) + 1
NewValue == Cardinality(DOMAIN runRes) + 1

\* filter_map(..).collect::<HashMap<_, _>>(): a Some((k, v)) item is
\* inserted (replacing an entry already under k), a None item is dropped
CollectKeepFirst(m, k, item) ==
    IF item.some /\ k \notin DOMAIN m THEN Put(m, k, item.val) ELSE m
CollectNoneRemoves(m, k, item) ==
    IF item.some THEN Put(m, k, item.val) ELSE [x \in (DOMAIN m) \ {k} |-> m[x]]
Collect(m, k, item) == IF item.some THEN Put(m, k, item.val) ELSE m

\* match test_result { Ok(p) => Some((test.name.clone(), p)), Err(e) => None }
TestItemNull(res) == [some |-> TRUE, val |-> IF res.ok THEN res.val ELSE 0]
TestItem(res) == IF res.ok THEN [some |-> TRUE, val |-> res.val] ELSE [some |-> FALSE]

\* match proxy_connection { Err(e) => { log::error!(..); None } .. }
ProxyErrItemEmpty == [some |-> TRUE, val |-> EmptyMap]
ProxyErrItem == [some |-> FALSE]

\* the connection handed to run_test: proxy_connection of the enclosing
\* Ok(proxy_connection) arm
ConnArgPrevious == cur.conn - 1
ConnArg == cur.conn

\* plugin.configure(proxy.content.clone()): the set-up request of the proxy
\* under the cursor goes out
SetupProxyCall ==
    /\ pc = "executing"
    /\ inflight = {}
    /\ cur.pp <= Len(ppOrder)
    /\ cur.conn = 0
    /\ cur.p <= Len(proxyProviders[CurPP])
    /\ inflight' = { Request(CurPP, "setup_proxy", << CurProxy.content >>) }
    /\ callCount' = Incr(callCount, CurPP, WireName["setup_proxy"])
    /\ UNCHANGED << pc, registry, log >>
    /\ UNCHANGED loadVars
    /\ UNCHANGED discVars
    /\ UNCHANGED execVars
    /\ UNCHANGED << answers, prev, reply, helloVars >>

\* .await of the set-up call and the match on its result
SetupProxy ==
    /\ pc = "executing"
    /\ inflight # {}
    /\ cur.pp <= Len(ppOrder)
    /\ cur.conn = 0
    /\ cur.p <= Len(proxyProviders[CurPP])
    /\ inflight' = {}
    /\ \E ok \in BOOLEAN :
         IF ok
         THEN /\ setupRes' = Put(setupRes, << CurPP, cur.p >>, [ok |-> TRUE, val |-> NewConn])
              /\ cur' = [cur EXCEPT !.conn = NewConn, !.tp = 1, !.t = 1]
              /\ acc' = [acc EXCEPT !.tps = EmptyMap, !.tests = EmptyMap]
              /\ UNCHANGED log
         ELSE /\ setupRes' = Put(setupRes, << CurPP, cur.p >>, [ok |-> FALSE, err |-> "PluginError"])
              /\ log' = log \cup {[kind |-> "setup_error", provider |-> CurPP,
                                   error |-> "PluginError"]}
              /\ acc' = [acc EXCEPT !.proxies = Collect(@, CurProxy.name, ProxyErrItem)]
              /\ cur' = [cur EXCEPT !.p = @ + 1]
    /\ UNCHANGED << pc, registry, callCount, runRes, output >>
    /\ UNCHANGED loadVars
    /\ UNCHANGED discVars
    /\ UNCHANGED << answers, prev, reply, helloVars >>

\* the handle run_test is called on: plugin of the test provider's entry
\* (test_provider, (plugin, tests))
RunTestTargetProxyOwner == CurPP
RunTestTarget == CurTP

\* plugin.run_test(test, proxy_connection): the request of the test under
\* the cursor goes out
RunTestCall ==
    /\ pc = "executing"
    /\ inflight = {}
    /\ cur.conn # 0
    /\ cur.tp <= Len(TestProvidersFor(CurPP))
    /\ cur.t <= Len(testProviders[CurTP])
    /\ inflight' = { Request(RunTestTarget, "run_test", << CurTest, ConnArg >>) }
    /\ callCount' = Incr(callCount, RunTestTarget, WireName["run_test"])
    /\ UNCHANGED << pc, registry, log >>
    /\ UNCHANGED loadVars
    /\ UNCHANGED discVars
    /\ UNCHANGED execVars
    /\ UNCHANGED << answers, prev, reply, helloVars >>

\* .await of the run_test call and the match on its result
RunTest ==
    /\ pc = "executing"
    /\ inflight # {}
    /\ cur.conn # 0
    /\ cur.tp <= Len(TestProvidersFor(CurPP))
    /\ cur.t <= Len(testProviders[CurTP])
    /\ inflight' = {}
    /\ \E ok \in BOOLEAN : \E rq \in inflight :
         LET res == IF ok THEN [ok |-> TRUE, val |-> NewValue, conn |-> rq.params[2]]
                    ELSE [ok |-> FALSE, err |-> "PluginError", conn |-> rq.params[2]]
         IN  /\ runRes' = Put(runRes, << CurPP, cur.p, CurTP, cur.t >>, res)
             /\ acc' = [acc EXCEPT !.tests = Collect(@, CurTest.name, TestItem(res))]
             /\ log' = IF ok THEN log
                       ELSE log \cup {[kind |-> "test_error", test |-> CurTest,
                                       conn |-> cur.conn, error |-> "PluginError"]}
    /\ cur' = [cur EXCEPT !.t = @ + 1]
    /\ UNCHANGED << pc, registry, callCount, setupRes, output >>
    /\ UNCHANGED loadVars
    /\ UNCHANGED discVars
    /\ UNCHANGED << answers, prev, reply, helloVars >>

\* the tests of one test provider are collected: (test_provider.clone(), map)
EndTestProvider ==
    /\ pc = "executing"
    /\ cur.conn # 0
    /\ cur.tp <= Len(TestProvidersFor(CurPP))
    /\ cur.t > Len(testProviders[CurTP])
    /\ acc' = [acc EXCEPT !.tps = Collect(@, CurTP, [some |-> TRUE, val |-> acc.tests]), !.tests = EmptyMap]
    /\ cur' = [cur EXCEPT !.tp = @ + 1, !.t = 1]
    /\ UNCHANGED << pc, registry, callCount, log, setupRes, runRes, output, inflight >>
    /\ UNCHANGED loadVars
    /\ UNCHANGED discVars
    /\ UNCHANGED << answers, prev, reply, helloVars >>

\* the test providers of one proxy are collected: Some((proxy.name.clone(), map))
EndProxy ==
    /\ pc = "executing"
    /\ cur.conn # 0
    /\ cur.tp > Len(TestProvidersFor(CurPP))
    /\ acc' = [acc EXCEPT !.proxies = Collect(@, CurProxy.name, [some |-> TRUE, val |-> acc.tps]), !.tps = EmptyMap]
    /\ cur' = [cur EXCEPT !.conn = 0, !.p = @ + 1, !.tp = 1, !.t = 1]
    /\ UNCHANGED << pc, registry, callCount, log, setupRes, runRes, output, inflight >>
    /\ UNCHANGED loadVars
    /\ UNCHANGED discVars
    /\ UNCHANGED << answers, prev, reply, helloVars >>

\* the item of the outer .then: (provider.clone(), map), whatever the map
ProviderItemNonEmpty(m) == IF m = EmptyMap THEN [some |-> FALSE] ELSE [some |-> TRUE, val |-> m]
ProviderItem(m) == [some |-> TRUE, val |-> m]

\* the proxies of one provider are collected: (provider.clone(), map)
EndProvider ==
    /\ pc = "executing"
    /\ cur.pp <= Len(ppOrder)
    /\ cur.conn = 0
    /\ cur.p > Len(proxyProviders[CurPP])
    /\ acc' = [acc EXCEPT !.results = Collect(@, CurPP, ProviderItem(acc.proxies)), !.proxies = EmptyMap]
    /\ cur' = [cur EXCEPT !.pp = @ + 1, !.p = 1]
    /\ UNCHANGED << pc, registry, callCount, log, setupRes, runRes, output, inflight >>
    /\ UNCHANGED loadVars
    /\ UNCHANGED discVars
    /\ UNCHANGED << answers, prev, reply, helloVars >>

\* the outer collect finishes: Output { test_results } is built and printed
Finish ==
    /\ pc = "executing"
    /\ cur.pp > Len(ppOrder)
    /\ output' = acc.results
    /\ acc' = NoAcc
    /\ cur' = NoCur
    /\ pc' = "done"
    /\ UNCHANGED << registry, callCount, log, setupRes, runRes, inflight >>
    /\ UNCHANGED loadVars
    /\ UNCHANGED discVars
    /\ UNCHANGED << answers, prev, reply, helloVars >>

\* ------------------------------------------- main returns (main.rs:112)
\* the locals of main that hold the Arc of plugin p's adapter
Holders(p, reg, pps, tps) ==
    (IF p \in reg THEN {"speedtest"} ELSE {})
    \cup (IF p \in DOMAIN pps THEN {"proxy_providers"} ELSE {})
    \cup (IF p \in DOMAIN tps THEN {"test_providers"} ELSE {})

\* Arc<dyn Plugin>: the FileJSONRPCPlugin, and with it the Child, is dropped
\* when the last holder is; kill_on_drop then kills the process
ChildAfterReleaseUnshared(state, holders) ==
    IF state = "alive" /\ "test_providers" \notin holders THEN "killed" ELSE state
ChildAfterRelease(state, holders) ==
    IF state = "alive" /\ holders = {} THEN "killed" ELSE state

\* main returns Ok(()): its locals are dropped in reverse order of
\* declaration, test_providers first
DropTestProviders ==
    /\ pc = "done"
    /\ testProviders' = EmptyMap
    /\ tpOrder' = << >>
    /\ procState' = [p \in Plugins |->
          ChildAfterRelease(procState[p], Holders(p, registry, proxyProviders, testProviders'))]
    /\ pc' = "dropped_tests"
    /\ UNCHANGED << scheme, lstate, loadResult, consumed, ended, endpoint >>
    /\ UNCHANGED << registry, callCount, log, discRes, proxyProviders, ppOrder >>
    /\ UNCHANGED execVars
    /\ UNCHANGED rpcVars

\* then proxy_providers
DropProxyProviders ==
    /\ pc = "dropped_tests"
    /\ proxyProviders' = EmptyMap
    /\ ppOrder' = << >>
    /\ procState' = [p \in Plugins |->
          ChildAfterRelease(procState[p], Holders(p, registry, proxyProviders', testProviders))]
    /\ pc' = "dropped_proxies"
    /\ UNCHANGED << scheme, lstate, loadResult, consumed, ended, endpoint >>
    /\ UNCHANGED << registry, callCount, log, discRes, testProviders, tpOrder >>
    /\ UNCHANGED execVars
    /\ UNCHANGED rpcVars

\* then speedtest, and with it plugin_map
DropSpeedTest ==
    /\ pc = "dropped_proxies"
    /\ registry' = {}
    /\ procState' = [p \in Plugins |->
          ChildAfterRelease(procState[p], Holders(p, registry', proxyProviders, testProviders))]
    /\ pc' = "exited"
    /\ UNCHANGED << scheme, lstate, loadResult, consumed, ended, endpoint >>
    /\ UNCHANGED << callCount, log >>
    /\ UNCHANGED discVars
    /\ UNCHANGED execVars
    /\ UNCHANGED rpcVars

Next ==
    \/ \E p \in Plugins : LoadStart(p)
    \/ \E p \in Plugins, s \in Streams, line \in Lines : LauncherLine(p, s, line)
    \/ \E p \in Plugins, s \in Streams : LauncherEof(p, s)
    \/ \E p \in Plugins : Connect(p)
    \/ SpeedTestNew
    \/ \E p \in Plugins : ParseProtocolReturn(p)
    \/ GetProxyProvider
    \/ \E p \in Plugins : TestsReturn(p)
    \/ GetTestProvider
    \/ SetupProxyCall
    \/ SetupProxy
    \/ RunTestCall
    \/ RunTest
    \/ EndTestProvider
    \/ EndProxy
    \/ EndProvider
    \/ Finish
    \/ DropTestProviders
    \/ DropProxyProviders
    \/ DropSpeedTest

Spec == Init /\ [][Next]_vars

\* ------------------------------------- the two sweeps, run more than once
NextDiscovery ==
    \/ \E p \in Plugins : LoadStart(p)
    \/ \E p \in Plugins, s \in Streams, line \in Lines : LauncherLine(p, s, line)
    \/ \E p \in Plugins, s \in Streams : LauncherEof(p, s)
    \/ \E p \in Plugins : Connect(p)
    \/ SpeedTestNew
    \/ \E p \in Plugins : ParseProtocolReturn(p)
    \/ GetProxyProvider
    \/ \E p \in Plugins : TestsReturn(p)
    \/ GetTestProvider
    \/ Rediscover

SpecDiscovery == Init /\ [][NextDiscovery]_vars

\* ----------------------------------- the adapter's methods, one at a time
\* the content of a ProtocolDescriptor, a TestDescriptor and a
\* ConnectionDescriptor a caller may hold
Contents == { << p, 1 >> : p \in Plugins }
ArgsOf(m) ==
    CASE m = "setup_proxy" -> { << c >> : c \in Contents }
      [] m = "run_test" -> { << [name |-> t], 1 >> : t \in TestNames }
      [] m = "parse_protocol" -> { << ConnectionString >> }
      [] OTHER -> { << >> }

\* both plugins are file-sourced and their adapters are built
InitAdapter ==
    /\ pc = "adapter"
    /\ scheme = [p \in Plugins |-> "file"]
    /\ lstate = [p \in Plugins |-> "done"]
    /\ loadResult = [p \in Plugins |-> "Ok"]
    /\ procState = [p \in Plugins |-> "alive"]
    /\ consumed = [p \in Plugins |-> << >>]
    /\ ended = [p \in Plugins |-> [s \in Streams |-> FALSE]]
    /\ endpoint = [p \in Plugins |-> << "a" >>]
    /\ registry = {}
    /\ callCount = [p \in Plugins |-> [m \in Methods |-> 0]]
    /\ log = {}
    /\ discRes = EmptyMap
    /\ proxyProviders = EmptyMap
    /\ testProviders = EmptyMap
    /\ ppOrder = << >>
    /\ tpOrder = << >>
    /\ cur = NoCur
    /\ acc = NoAcc
    /\ setupRes = EmptyMap
    /\ runRes = EmptyMap
    /\ output = EmptyMap
    /\ inflight = {}
    /\ answers = EmptyMap
    /\ prev = NoPrev
    /\ reply = NoReply
    /\ NoHello

RECURSIVE Calls(_, _)
\* number of calls counted in cc for the plugins of ps
Calls(cc, ps) ==
    IF ps = {} THEN 0
    ELSE LET p == CHOOSE q \in ps : TRUE
         IN  cc[p]["init"] + cc[p]["metadata"] + cc[p]["tests"] + cc[p]["setup_proxy"]
             + cc[p]["run_test"] + cc[p]["data_transforms"] + cc[p]["parse_protocol"]
             + Calls(cc, ps \ {p})

\* method m of p's adapter is called with arguments a: client.request(..)
AdapterCall(p, m, a) ==
    /\ pc = "adapter"
    /\ inflight = {}
    /\ Calls(callCount, Plugins) < MaxAdapterCalls
    /\ inflight' = { Request(p, m, a) }
    /\ callCount' = [callCount EXCEPT ![p] =
          [x \in Methods |-> IF x = WireName[m] THEN @[x] + 1 ELSE @[x]]]
    /\ reply' = [raw |-> "pending", plugin |-> p, cap |-> m, args |-> a]
    /\ UNCHANGED << pc, registry, log, answers, prev, helloVars >>
    /\ UNCHANGED loadVars
    /\ UNCHANGED discVars
    /\ UNCHANGED execVars

\* the request comes back as raw and the method returns
AdapterReturn(raw) ==
    /\ pc = "adapter"
    /\ \E rq \in inflight :
         /\ raw \in RawRepliesFor(rq.cap)
         /\ reply' = [raw |-> raw, plugin |-> reply.plugin, cap |-> reply.cap,
                       args |-> reply.args, req |-> rq,
                       result |-> AdapterResult(rq.cap, raw)]
    /\ inflight' = {}
    /\ UNCHANGED << pc, registry, callCount, log, answers, prev, helloVars >>
    /\ UNCHANGED loadVars
    /\ UNCHANGED discVars
    /\ UNCHANGED execVars

NextAdapter ==
    \/ \E p \in Plugins, m \in DOMAIN WireName : \E a \in ArgsOf(m) : AdapterCall(p, m, a)
    \/ \E raw \in RawReplies : AdapterReturn(raw)

SpecAdapter == InitAdapter /\ [][NextAdapter]_vars

\* ------------------------------------------- plugin-hello.rs: configure
\* The plugin process on its own: a client sends configure calls, the
\* server runs one handler future per call.

\* what a call carries: params.parse() of (Value, Option<HelloPluginConfig>)
\* fails, or yields a first element that is Null or is not
HelloParams == {"unparsable", "null", "not_null"}

\* A line of gost: "S" is the literal text "socks5://:0 on [::]:", "d" is
\* a run of digits, "x" is any other text.
GostLines == { <<"x">>, <<"S", "d">>, <<"S", "x">>, <<"x", "S", "d">>, BadLine }
\* Regex r"socks5:\/\/:0 on \[::\]:(\d+)"
GostMatches(line) ==
    line # BadLine /\ \E i \in 1..(Len(line) - 1) : line[i] = "S" /\ line[i + 1] = "d"
\* |[port]| format!("socks5://127.0.0.1:{}", port): the port is the one the
\* child of call c listens on
ConnectionStringOf(c) == << "socks5://127.0.0.1:", c >>

\* kill_on_drop(true): dropping the Child kills a process still running
DropChild(state) == IF state = "running" THEN "killed" ELSE state

InitHello ==
    /\ pc = "hello"
    /\ scheme = [p \in Plugins |-> "file"]
    /\ lstate = [p \in Plugins |-> "start"]
    /\ loadResult = [p \in Plugins |-> "pending"]
    /\ procState = [p \in Plugins |-> "none"]
    /\ consumed = [p \in Plugins |-> << >>]
    /\ ended = [p \in Plugins |-> [s \in Streams |-> FALSE]]
    /\ endpoint = [p \in Plugins |-> << >>]
    /\ registry = {}
    /\ callCount = [p \in Plugins |-> [m \in Methods |-> 0]]
    /\ log = {}
    /\ discRes = EmptyMap
    /\ proxyProviders = EmptyMap
    /\ testProviders = EmptyMap
    /\ ppOrder = << >>
    /\ tpOrder = << >>
    /\ cur = NoCur
    /\ acc = NoAcc
    /\ setupRes = EmptyMap
    /\ runRes = EmptyMap
    /\ output = EmptyMap
    /\ inflight = {}
    /\ answers = EmptyMap
    /\ prev = NoPrev
    /\ reply = NoReply
    /\ NoHello

\* the variables of the controller, which plugin-hello does not have
controllerVars == << pc, registry, callCount, log, loadVars, discVars, execVars,
                     inflight, answers, prev, reply >>

\* a configure request arrives and its handler runs up to the first await:
\* params.parse()?, assert_eq!(params, Null), Command::new("gost") .. spawn()
ConfigureCall(c, params, spawned) ==
    /\ pc = "hello"
    /\ configure[c].at = "idle"
    /\ IF params = "unparsable"
       THEN /\ configure' = [configure EXCEPT ![c] = [at |-> "rejected"]]
            /\ UNCHANGED child
       ELSE IF params = "not_null" \/ ~spawned
       THEN /\ configure' = [configure EXCEPT ![c] = [at |-> "panicked"]]
            /\ UNCHANGED child
       ELSE /\ configure' = [configure EXCEPT ![c] = [at |-> "spawned"]]
            /\ child' = [child EXCEPT ![c] = "running"]
    /\ UNCHANGED << helloPlugin, mutex >>
    /\ UNCHANGED controllerVars

\* the launcher of call c reads a line of its child: a match returns
\* (connection_string, child), an undecodable line panics, any other line
\* is skipped
ConfigureLine(c, line) ==
    /\ pc = "hello"
    /\ configure[c].at = "spawned"
    /\ child[c] = "running"
    /\ IF line = BadLine
       THEN /\ configure' = [configure EXCEPT ![c] = [at |-> "panicked"]]
            /\ child' = [child EXCEPT ![c] = DropChild(@)]
       ELSE IF GostMatches(line)
       THEN /\ configure' = [configure EXCEPT ![c] =
                               [at |-> "matched", socks5 |-> ConnectionStringOf(c)]]
            /\ UNCHANGED child
       ELSE UNCHANGED << configure, child >>
    /\ UNCHANGED << helloPlugin, mutex >>
    /\ UNCHANGED controllerVars

\* both pipes of the child of call c have ended without a match: the
\* launcher panics and the unwinding drops the Child
ConfigureEof(c) ==
    /\ pc = "hello"
    /\ configure[c].at = "spawned"
    /\ configure' = [configure EXCEPT ![c] = [at |-> "panicked"]]
    /\ child' = [child EXCEPT ![c] = DropChild(@)]
    /\ UNCHANGED << helloPlugin, mutex >>
    /\ UNCHANGED controllerVars

\* let mut guard = hello_plugin.lock().unwrap()
ConfigureLock(c) ==
    /\ pc = "hello"
    /\ configure[c].at = "matched"
    /\ mutex = 0
    /\ mutex' = c
    /\ configure' = [configure EXCEPT ![c].at = "locked"]
    /\ UNCHANGED << child, helloPlugin >>
    /\ UNCHANGED controllerVars

\* the child that std::mem::swap(&mut guard.process, &mut Some(child)) leaves
\* in the temporary, which is dropped at the end of the statement
DroppedBySwapNothing(stored, c) == 0
DroppedBySwap(stored, c) == stored

\* std::mem::swap(&mut guard.process, &mut Some(child))
ConfigureSwap(c) ==
    /\ pc = "hello"
    /\ configure[c].at = "locked"
    /\ mutex = c
    /\ helloPlugin' = [process |-> c]
    /\ LET old == DroppedBySwap(helloPlugin.process, c)
       IN  child' = IF old = 0 THEN child ELSE [child EXCEPT ![old] = DropChild(@)]
    /\ configure' = [configure EXCEPT ![c].at = "swapped"]
    /\ UNCHANGED mutex
    /\ UNCHANGED controllerVars

\* Ok(ConnectionDescriptor { http: None, socks5: Some(connection_string),
\* tun: false }) is returned and the guard goes out of scope
ConfigureReturn(c) ==
    /\ pc = "hello"
    /\ configure[c].at = "swapped"
    /\ mutex = c
    /\ mutex' = 0
    /\ configure' = [configure EXCEPT ![c].at = "returned"]
    /\ UNCHANGED << child, helloPlugin >>
    /\ UNCHANGED controllerVars

\* a gost process ends on its own
ChildExit(c) ==
    /\ pc = "hello"
    /\ child[c] = "running"
    /\ child' = [child EXCEPT ![c] = "exited"]
    /\ UNCHANGED << configure, helloPlugin, mutex >>
    /\ UNCHANGED controllerVars

NextHello ==
    \/ \E c \in HelloCalls, params \in HelloParams, spawned \in BOOLEAN :
         ConfigureCall(c, params, spawned)
    \/ \E c \in HelloCalls, line \in GostLines : ConfigureLine(c, line)
    \/ \E c \in HelloCalls : ConfigureEof(c)
    \/ \E c \in HelloCalls : ConfigureLock(c)
    \/ \E c \in HelloCalls : ConfigureSwap(c)
    \/ \E c \in HelloCalls : ConfigureReturn(c)
    \/ \E c \in HelloCalls : ChildExit(c)

SpecHello == InitHello /\ [][NextHello]_vars

\* =================================================================== claims
\* helpers over the record of the calls made
ProxyName(pp, i) == proxyProviders[pp][i].name
TestName(tp, j) == testProviders[tp][j].name
AllProxies == { k \in (DOMAIN proxyProviders) \X (1..MaxDescriptors) : k[2] <= Len(proxyProviders[k[1]]) }
AllTests == { k \in (DOMAIN testProviders) \X (1..MaxDescriptors) : k[2] <= Len(testProviders[k[1]]) }
SetupOk(pp, i) == << pp, i >> \in DOMAIN setupRes /\ setupRes[<< pp, i >>].ok
SetupFailed(pp, i) == << pp, i >> \in DOMAIN setupRes /\ ~setupRes[<< pp, i >>].ok
RunOk(pp, i, tp, j) == << pp, i, tp, j >> \in DOMAIN runRes /\ runRes[<< pp, i, tp, j >>].ok
RunFailed(pp, i, tp, j) == << pp, i, tp, j >> \in DOMAIN runRes /\ ~runRes[<< pp, i, tp, j >>].ok
\* proxy i is the last proxy of its name in pp's sequence that was set up
LastOk(pp, i) ==
    /\ SetupOk(pp, i)
    /\ \A k \in AllProxies :
         (k[1] = pp /\ k[2] > i /\ ProxyName(pp, k[2]) = ProxyName(pp, i)) => ~SetupOk(pp, k[2])
HasProxyKey(pp, n) == pp \in DOMAIN output /\ n \in DOMAIN output[pp]
HasLeaf(pp, n, tp, t) ==
    /\ HasProxyKey(pp, n)
    /\ tp \in DOMAIN output[pp][n]
    /\ t \in DOMAIN output[pp][n][tp]
Leaves == { l \in Plugins \X ProxyNames \X Plugins \X TestNames : HasLeaf(l[1], l[2], l[3], l[4]) }
\* every proxy of every provider was attempted, whatever failed before it
AllAttempted == \A k \in AllProxies : k \in DOMAIN setupRes

\* C1 (as stated): once the traversal is done, the name of a proxy whose
\* set-up call failed is no key under its provider, and every proxy of every
\* provider was still attempted and every proxy set up is a key.
C1_FailedProxyNameAbsent ==
    pc = "done" =>
      /\ \A k \in AllProxies :
           SetupFailed(k[1], k[2]) => ~HasProxyKey(k[1], ProxyName(k[1], k[2]))
      /\ AllAttempted
      /\ \A k \in AllProxies : SetupOk(k[1], k[2]) => HasProxyKey(k[1], ProxyName(k[1], k[2]))

\* C1 (amended): once the traversal is done, a proxy name is a key under its
\* provider exactly when some proxy of that provider carrying that name was
\* set up successfully; so a failed proxy leaves no key unless a proxy of
\* the same name succeeded, and every proxy of every provider is attempted
\* whatever failed before it.
C1_FailedProxyLeavesNoKey ==
    pc = "done" =>
      /\ DOMAIN output = DOMAIN proxyProviders
      /\ \A pp \in DOMAIN proxyProviders : \A n \in ProxyNames :
           HasProxyKey(pp, n) <=>
             \E k \in AllProxies : k[1] = pp /\ ProxyName(pp, k[2]) = n /\ SetupOk(pp, k[2])
      /\ AllAttempted

\* a run with a failed proxy next to a sibling of another name that was set up
C1_Witness ==
    /\ pc = "done"
    /\ \E k1, k2 \in AllProxies :
         /\ k1[1] = k2[1]
         /\ ProxyName(k1[1], k1[2]) # ProxyName(k2[1], k2[2])
         /\ SetupFailed(k1[1], k1[2])
         /\ SetupOk(k2[1], k2[2])
         /\ ~HasProxyKey(k1[1], ProxyName(k1[1], k1[2]))
         /\ HasProxyKey(k2[1], ProxyName(k2[1], k2[2]))

\* C2 (as stated): once the traversal is done, the leaf of a failed run_test
\* is absent and the leaf of every run_test that succeeded is present.
C2_ExactlyFailedLeafAbsent ==
    pc = "done" =>
      \A k \in AllProxies : \A u \in AllTests :
        /\ RunFailed(k[1], k[2], u[1], u[2]) =>
             ~HasLeaf(k[1], ProxyName(k[1], k[2]), u[1], TestName(u[1], u[2]))
        /\ RunOk(k[1], k[2], u[1], u[2]) =>
             HasLeaf(k[1], ProxyName(k[1], k[2]), u[1], TestName(u[1], u[2]))

\* C2 (amended): once the traversal is done, under the last proxy of a name
\* that was set up, a test name of a test provider is a leaf exactly when
\* some run_test of a test of that name succeeded against that connection:
\* a failed test leaves no leaf unless a test of the same name succeeded,
\* and a test that succeeded is a leaf.
C2_FailedTestLeavesNoLeaf ==
    pc = "done" =>
      \A k \in AllProxies : LastOk(k[1], k[2]) =>
        \A tp \in DOMAIN testProviders : \A t \in TestNames :
          HasLeaf(k[1], ProxyName(k[1], k[2]), tp, t) <=>
            \E u \in AllTests : u[1] = tp /\ TestName(tp, u[2]) = t /\ RunOk(k[1], k[2], tp, u[2])

\* a connection against which one test failed and a test of another name passed
C2_Witness ==
    /\ pc = "done"
    /\ \E k \in AllProxies : \E u1, u2 \in AllTests :
         /\ LastOk(k[1], k[2])
         /\ RunFailed(k[1], k[2], u1[1], u1[2])
         /\ RunOk(k[1], k[2], u2[1], u2[2])
         /\ ~HasLeaf(k[1], ProxyName(k[1], k[2]), u1[1], TestName(u1[1], u1[2]))
         /\ HasLeaf(k[1], ProxyName(k[1], k[2]), u2[1], TestName(u2[1], u2[2]))

\* run_test was issued for every test of every test provider against every
\* connection that was set up
FullCross ==
    \A k \in AllProxies : SetupOk(k[1], k[2]) =>
      \A u \in AllTests : << k[1], k[2], u[1], u[2] >> \in DOMAIN runRes
\* two plugins, each with one proxy and one test, every call succeeding
TwoByTwo ==
    /\ DOMAIN proxyProviders = Plugins
    /\ DOMAIN testProviders = Plugins
    /\ \A p \in Plugins : Len(proxyProviders[p]) = 1 /\ Len(testProviders[p]) = 1
    /\ \A k \in AllProxies : SetupOk(k[1], k[2])
    /\ \A k \in AllProxies : \A u \in AllTests : RunOk(k[1], k[2], u[1], u[2])

\* C3 (as stated): once the traversal is done, every test of every test
\* provider was run against every connection set up, every run that
\* succeeded is a leaf, and the two-by-two scenario has four leaves.
C3_FullCrossProduct ==
    pc = "done" =>
      /\ FullCross
      /\ \A k \in AllProxies : \A u \in AllTests :
           RunOk(k[1], k[2], u[1], u[2]) =>
             HasLeaf(k[1], ProxyName(k[1], k[2]), u[1], TestName(u[1], u[2]))
      /\ TwoByTwo => Cardinality(Leaves) = 4

\* C3 (amended): once the traversal is done, every test of every test
\* provider was run against every connection set up, every run that
\* succeeded against the last proxy of its name that was set up is a leaf,
\* whether or not test provider and proxy provider are the same plugin, and
\* the two-by-two scenario has four leaves.
C3_FullCrossProductOfLastProxies ==
    pc = "done" =>
      /\ FullCross
      /\ \A k \in AllProxies : LastOk(k[1], k[2]) =>
           /\ \A tp \in DOMAIN testProviders :
                tp \in DOMAIN output[k[1]][ProxyName(k[1], k[2])]
           /\ \A u \in AllTests :
                RunOk(k[1], k[2], u[1], u[2]) =>
                  HasLeaf(k[1], ProxyName(k[1], k[2]), u[1], TestName(u[1], u[2]))
      /\ TwoByTwo => Cardinality(Leaves) = 4

\* the two-by-two scenario, finished with its four leaves
C3_Witness ==
    /\ pc = "done"
    /\ TwoByTwo
    /\ Cardinality(Leaves) = 4
    /\ \E l \in Leaves : l[1] # l[3]

\* C4: once the traversal is done, every leaf [pp][p][tp][t] holds the value
\* returned by a successful run_test of a test named t of tp, made against
\* the connection returned by a successful set-up of a proxy named p of pp.
C4_LeavesAreSuccessfulRuns ==
    pc = "done" =>
      \A l \in Leaves :
        \E k \in AllProxies : \E u \in AllTests :
          /\ k[1] = l[1] /\ ProxyName(k[1], k[2]) = l[2]
          /\ u[1] = l[3] /\ TestName(u[1], u[2]) = l[4]
          /\ SetupOk(k[1], k[2])
          /\ RunOk(k[1], k[2], u[1], u[2])
          /\ runRes[<< k[1], k[2], u[1], u[2] >>].conn = setupRes[k].val
          /\ output[l[1]][l[2]][l[3]][l[4]] = runRes[<< k[1], k[2], u[1], u[2] >>].val

\* a finished tree with a leaf next to a failed test and a failed set-up
C4_Witness ==
    /\ pc = "done"
    /\ Leaves # {}
    /\ \E k \in AllProxies : SetupFailed(k[1], k[2])
    /\ \E k \in DOMAIN runRes : ~runRes[k].ok

\* ways the launcher ends in a panic
LauncherPanics == {"PanicSpawn", "PanicRead", "PanicNoMatch"}
Logged(kind, p) == \E r \in log : r.kind = kind /\ r.plugin = p

\* C5: a plugin load failure never takes SpeedTest::new down, and once
\* SpeedTest::new has returned every configured plugin is either in the
\* registry and logged as loaded, or out of it and logged as failed.
C5_LoadFailuresIsolated ==
    /\ pc # "panicked"
    /\ pc \in {"proxy_discovery", "test_discovery", "executing", "done"} =>
         \A p \in Plugins :
           /\ p \in registry <=> Logged("loaded", p)
           /\ p \notin registry <=> Logged("load_error", p)

\* C6: a plugin whose subprocess fails to start or ends without a readiness
\* line cuts no other plugin's construction short, and no other plugin
\* whose construction succeeded is kept out of a registry.
C6_ConstructionsIndependent ==
    \A q \in Plugins : loadResult[q] \in {"PanicSpawn", "PanicNoMatch"} =>
      \A p \in Plugins \ {q} :
        /\ loadResult[p] # "Cancelled"
        /\ loadResult[p] = "Ok" => pc # "panicked"

\* the plugin names that are keys of a result tree (levels one and three)
ProviderKeysOf(tree) ==
    DOMAIN tree \cup
    UNION { UNION { DOMAIN tree[pp][n] : n \in DOMAIN tree[pp] } : pp \in DOMAIN tree }

C8_InitOnceBeforeOtherCalls ==
    \A p \in Plugins :
      /\ p \in registry => callCount[p]["init"] = 1
      /\ (\E m \in Methods \ {"init"} : callCount[p][m] > 0) => callCount[p]["init"] = 1

\* the launcher of p has returned and load_json_rpc_plugin holds its result
Returned(p) == lstate[p] = "connecting"

\* C9: when the launcher returns, the last line it read is the only line
\* read that matches, the value returned is derived from that line's group
\* alone, the child is alive, and no further line is read afterwards.
C9_ReturnsOnFirstMatch ==
    /\ [](\A p \in Plugins : Returned(p) =>
            /\ Len(consumed[p]) >= 1
            /\ Matches(consumed[p][Len(consumed[p])])
            /\ \A i \in 1..(Len(consumed[p]) - 1) : ~Matches(consumed[p][i])
            /\ endpoint[p] = Transform(Capture(consumed[p][Len(consumed[p])]))
            /\ procState[p] = "alive")
    /\ [][\A p \in Plugins : Returned(p) =>
            (consumed'[p] = consumed[p] \/ consumed'[p] = << >>)]_vars

\* a launcher that returned after reading a line that did not match
C9_Witness ==
    \E p \in Plugins :
      /\ Returned(p)
      /\ Len(consumed[p]) >= 2
      /\ "L" \in { consumed[p][1][k] : k \in 1..Len(consumed[p][1]) }

BothEnded(p) == ended[p]["stdout"] /\ ended[p]["stderr"]
NoLineMatched(p) == \A i \in 1..Len(consumed[p]) : ~Matches(consumed[p][i])

\* C10: the launcher has failed for want of a match exactly when both pipes
\* have ended and no line read matched; with one pipe ended it keeps
\* waiting, and a matching line from the other pipe makes it return.
C10_NoMatchFailureIffBothEnded ==
    \A p \in Plugins :
      /\ loadResult[p] = "PanicNoMatch" => BothEnded(p) /\ NoLineMatched(p)
      /\ (procState[p] # "none" /\ BothEnded(p) /\ NoLineMatched(p))
           => loadResult[p] = "PanicNoMatch"
      /\ lstate[p] = "waiting" => ~BothEnded(p) /\ NoLineMatched(p)
      /\ Returned(p) => ~NoLineMatched(p)

\* a launcher that returned a match read after one pipe had ended
C10_Witness ==
    \E p \in Plugins :
      /\ Returned(p)
      /\ ended[p]["stdout"] # ended[p]["stderr"]

\* the holders of the shared handle of p's adapter: the locals of main and,
\* while SpeedTest::new is running, the result slot of its join_all
HandleHolders(p) ==
    Holders(p, registry, proxyProviders, testProviders)
    \cup (IF pc = "loading" /\ loadResult[p] = "Ok" THEN {"join_all"} ELSE {})
\* an adapter was built for p
HadAdapter(p) == loadResult[p] = "Ok" \/ Logged("loaded", p)

\* C11: the subprocess of a plugin whose adapter was built is alive exactly
\* as long as some holder of the adapter's shared handle exists, is killed
\* once none is left, and once killed stays killed.
C11_KilledOnLastRelease ==
    /\ [](\A p \in Plugins : HadAdapter(p) =>
            /\ HandleHolders(p) # {} => procState[p] = "alive"
            /\ HandleHolders(p) = {} => procState[p] = "killed")
    /\ [][\A p \in Plugins : procState[p] = "killed" => procState'[p] = "killed"]_vars

\* main has returned and a plugin that was in the registry and in both
\* provider maps has had its subprocess killed
C11_Witness ==
    /\ pc = "exited"
    /\ \E p \in Plugins :
         /\ Logged("loaded", p)
         /\ << p, "parse_protocol" >> \in DOMAIN answers /\ answers[<< p, "parse_protocol" >>].ok
         /\ << p, "tests" >> \in DOMAIN answers /\ answers[<< p, "tests" >>].ok
         /\ procState[p] = "killed"

\* the launcher of p returned and JSONRPCPlugin::new then failed
ChannelFailed(p) ==
    \/ loadResult[p] \in {"ParseError", "WsHandshakeError"}
    \/ [kind |-> "load_error", plugin |-> p, error |-> "PluginError"] \in log

\* C12: when the launcher of a file-sourced plugin succeeded and opening
\* the channel failed (address that does not parse, or failed handshake),
\* load_json_rpc_plugin has returned an error, the subprocess is killed, no
\* adapter of the plugin is in the registry or in a provider map, and no
\* call was ever sent to it.
C12_FailedConnectKillsChild ==
    \A p \in Plugins :
      /\ (lstate[p] = "done" /\ scheme[p] = "file" /\ pc = "loading")
           => loadResult[p] \in {"Ok", "ParseError", "WsHandshakeError"}
      /\ ChannelFailed(p) =>
           /\ procState[p] = "killed"
           /\ HandleHolders(p) = {}
           /\ ~Logged("loaded", p)
           /\ \A m \in Methods : callCount[p][m] = 0
           /\ \A rq \in inflight : rq.plugin # p

\* the run is over, one plugin failed to open its channel after its
\* launcher had returned and another plugin was loaded
C12_Witness ==
    /\ pc = "done"
    /\ \E p, q \in Plugins :
         /\ ChannelFailed(p)
         /\ procState[p] = "killed"
         /\ q \in registry
         /\ procState[q] = "alive"

\* C13: an adapter method whose request came back as an error response, or
\* as a result that does not decode, returns the bad-response error
\* (APIBadResponse); it returns a transport error only when the channel
\* failed; and it returns Ok only for a result that decodes.
C13_ErrorResponseIsBadResponse ==
    reply.raw \in RawReplies =>
      /\ reply.raw \in {"error_response", "bad_result"} <=> reply.result = "APIBadResponse"
      /\ reply.raw = "transport_failure" <=> reply.result \in {"ClientError", "ParseError", "WsHandshakeError"}
      /\ reply.raw = "result" <=> reply.result = "Ok"

\* plugin p answered discovery call m, and with success
Answered(p, m) == << p, m >> \in DOMAIN answers
AnsweredOk(p, m) == Answered(p, m) /\ answers[<< p, m >>].ok

\* C14: once a sweep has been collected, its map holds exactly the plugins
\* of the registry whose call of that sweep succeeded, each with the list
\* it returned (an empty list included); whether a plugin is in one map
\* does not depend on its other call or on any other plugin's calls.
C14_MapsHoldExactlySuccesses ==
    /\ pc \in {"test_discovery", "executing", "done"} =>
         /\ DOMAIN proxyProviders = { p \in registry : AnsweredOk(p, "parse_protocol") }
         /\ \A p \in DOMAIN proxyProviders :
              proxyProviders[p] = answers[<< p, "parse_protocol" >>].val
    /\ pc \in {"executing", "done"} =>
         /\ DOMAIN testProviders = { p \in registry : AnsweredOk(p, "tests") }
         /\ \A p \in DOMAIN testProviders :
              testProviders[p] = answers[<< p, "tests" >>].val

\* both sweeps are collected; one plugin failed parse_protocol and is a
\* test provider, the other returned no proxy and failed tests
C14_Witness ==
    /\ pc = "executing"
    /\ \E p, q \in registry :
         /\ p # q
         /\ Answered(p, "parse_protocol") /\ ~AnsweredOk(p, "parse_protocol")
         /\ p \in DOMAIN testProviders /\ p \notin DOMAIN proxyProviders
         /\ q \in DOMAIN proxyProviders /\ proxyProviders[q] = << >>
         /\ Answered(q, "tests") /\ ~AnsweredOk(q, "tests")
         /\ q \notin DOMAIN testProviders

\* C15: once a sweep has been collected, every plugin whose call of that
\* sweep failed has a log record naming the plugin and the error; every
\* failed set-up has a log record naming the proxy and the error; every
\* failed run_test has a log record naming the test, the connection and
\* the error.
C15_EveryFailureLogged ==
    /\ pc \in {"test_discovery", "executing", "done"} =>
         \A p \in registry : (Answered(p, "parse_protocol") /\ ~AnsweredOk(p, "parse_protocol")) =>
           \E r \in log : /\ r.kind = "discovery_error"
                           /\ r.plugin = p
                           /\ r.error = answers[<< p, "parse_protocol" >>].err
    /\ pc \in {"executing", "done"} =>
         \A p \in registry : (Answered(p, "tests") /\ ~AnsweredOk(p, "tests")) =>
           \E r \in log : /\ r.kind = "discovery_error"
                           /\ r.plugin = p
                           /\ r.error = answers[<< p, "tests" >>].err
    /\ pc \in {"executing", "done"} =>
         \A k \in AllProxies : SetupFailed(k[1], k[2]) =>
           \E r \in log : /\ r.kind = "setup_error"
                           /\ "proxy" \in DOMAIN r
                           /\ r.proxy = ProxyName(k[1], k[2])
                           /\ r.error = setupRes[k].err
    /\ pc \in {"executing", "done"} =>
         \A k \in DOMAIN runRes : ~runRes[k].ok =>
           \E r \in log : /\ r.kind = "test_error"
                           /\ r.test = testProviders[k[3]][k[4]]
                           /\ r.conn = runRes[k].conn
                           /\ r.error = runRes[k].err

\* the requests of the traversal that are outstanding
SetupsInFlight == { rq \in inflight : rq.cap = "setup_proxy" }
RunsInFlight == { rq \in inflight : rq.cap = "run_test" }
\* the traversal has at no time more than one request outstanding
TraversalIsSequential == pc = "executing" => Cardinality(inflight) <= 1

\* C16: the traversal fans out at each nesting level, as the discovery
\* sweeps do: while the set-up request of one proxy is outstanding, so is
\* the set-up request of every other proxy whose set-up has not returned,
\* and while a run_test request against a connection is outstanding, so is
\* that of every other test not yet answered for that connection.
C16_BranchesInFlightTogether ==
    /\ SetupsInFlight # {} =>
         \A k \in AllProxies : k \notin DOMAIN setupRes =>
           Request(k[1], "setup_proxy", << proxyProviders[k[1]][k[2]].content >>) \in inflight
    /\ RunsInFlight # {} =>
         \A u \in AllTests : << CurPP, cur.p, u[1], u[2] >> \notin DOMAIN runRes =>
           Request(u[1], "run_test", << testProviders[u[1]][u[2]], cur.conn >>) \in inflight

\* the positional parameters a method called with arguments a is to send
SurfaceParams(p, m, a) ==
    CASE m = "init" -> << ConfigOf(p) >>
      [] m \in {"metadata", "tests", "data_transforms"} -> << >>
      [] m = "setup_proxy" -> << a[1] >>
      [] m = "run_test" -> << a[1].name, a[2] >>
      [] m = "parse_protocol" -> << a[1] >>
\* a method of the adapter is called and its one request is outstanding
AdapterCalled == reply.raw = "pending"
\* the request sent for the pending or returned call has name n
SentAs(n) ==
    /\ AdapterCalled => inflight = { [plugin |-> reply.plugin, cap |-> reply.cap, method |-> n,
                                      params |-> SurfaceParams(reply.plugin, reply.cap, reply.args)] }
    /\ reply.raw \in RawReplies =>
         reply.req = [plugin |-> reply.plugin, cap |-> reply.cap, method |-> n,
                      params |-> SurfaceParams(reply.plugin, reply.cap, reply.args)]

\* C17 (as stated): every method of the adapter sends one request whose
\* name and positional parameters are those of initialize(config),
\* metadata(), tests(), set_up_proxy(content), run_test(test_name,
\* connection), data_transforms(), parse_protocol(connection_string).
C17_RequestsFollowStatedSurface ==
    reply.raw # "none" =>
      SentAs([init |-> "initialize", metadata |-> "metadata", tests |-> "tests",
              setup_proxy |-> "set_up_proxy", run_test |-> "run_test",
              data_transforms |-> "data_transforms",
              parse_protocol |-> "parse_protocol"][reply.cap])

\* C17 (amended): every method of the adapter sends exactly one request,
\* whose name and positional parameters are those of init(config),
\* metadata(), tests(), setup_proxy(content), run_test(test_name,
\* connection), data_transforms(), parse_protocol(connection_string), and
\* returns Ok when the result of that request decodes.
C17_RequestsFollowAdapterSurface ==
    /\ [](reply.raw # "none" =>
            /\ SentAs([init |-> "init", metadata |-> "metadata", tests |-> "tests",
                       setup_proxy |-> "setup_proxy", run_test |-> "run_test",
                       data_transforms |-> "data_transforms",
                       parse_protocol |-> "parse_protocol"][reply.cap])
            /\ reply.raw = "result" => reply.result = "Ok"
            /\ reply.raw \in RawReplies => inflight = {})
    /\ [][(reply' # reply /\ reply'.raw = "pending") =>
            Calls(callCount', Plugins) = Calls(callCount, Plugins) + 1]_vars
    /\ [][(reply' # reply /\ reply'.raw # "pending") =>
            callCount' = callCount]_vars

\* setup_proxy was called with a descriptor's content and its request came
\* back with a result that decodes
C17_Witness ==
    /\ reply.raw = "result"
    /\ reply.cap = "setup_proxy"
    /\ reply.req.method = "setup_proxy"
    /\ reply.req.params = << reply.args[1] >>
    /\ reply.result = "Ok"

\* the registry is {A}, A offers the one proxy p1 and its set-up failed
OnlyProxyFailed ==
    /\ registry = {"A"}
    /\ DOMAIN proxyProviders = {"A"}
    /\ Len(proxyProviders["A"]) = 1
    /\ ProxyName("A", 1) = "p1"
    /\ SetupFailed("A", 1)

\* C18: once the traversal is done, the top-level keys of the tree are the
\* keys of the proxy-provider map; a provider none of whose proxies was set
\* up (or that offered none) is a key with an empty map; with registry {A},
\* one proxy p1 and its set-up failing, the tree is exactly {A: {}}.
C18_EveryProviderIsTopLevelKey ==
    pc = "done" =>
      /\ DOMAIN output = DOMAIN proxyProviders
      /\ \A pp \in DOMAIN proxyProviders :
           (\A k \in AllProxies : k[1] = pp => ~SetupOk(k[1], k[2])) => DOMAIN output[pp] = {}
      /\ OnlyProxyFailed => (DOMAIN output = {"A"} /\ DOMAIN output["A"] = {})

\* the scenario, finished: the tree is {A: {}}
C18_Witness ==
    /\ pc = "done"
    /\ OnlyProxyFailed
    /\ DOMAIN output = {"A"}
    /\ DOMAIN output["A"] = {}

\* the sweeps have been run before over the registry as it is
SweptBefore == prev.sweep > 1

\* C19: with the registry and the plugins' answers unchanged, a sweep run
\* again returns the map the sweep before returned, in whatever order the
\* responses arrive, and no step of a sweep changes the registry.
C19_DiscoveryIdempotent ==
    /\ [](SweptBefore =>
            /\ registry = prev.registry
            /\ pc \in {"test_discovery", "executing"} => proxyProviders = prev.proxies
            /\ pc = "executing" => testProviders = prev.tests)
    /\ [][(pc \in {"proxy_discovery", "test_discovery"}) => (registry' = registry)]_vars

\* both sweeps have been run a second time over two plugins, one of which
\* fails parse_protocol, and returned the maps of the first time
C19_Witness ==
    /\ SweptBefore
    /\ pc = "executing"
    /\ registry = Plugins
    /\ \E p \in Plugins : ~AnsweredOk(p, "parse_protocol")
    /\ \E p \in Plugins : AnsweredOk(p, "parse_protocol") /\ Len(prev.proxies[p]) > 0
    /\ proxyProviders = prev.proxies
    /\ DOMAIN prev.tests # {}
    /\ testProviders = prev.tests

\* C20: every set-up request sent is that of one descriptor, sent once, and
\* once the traversal is done every descriptor of the proxy-provider map
\* has had its one; every run_test, answered or outstanding, belongs to a
\* proxy whose set-up had returned with success and carries the connection
\* that set-up returned; no run_test exists for a proxy whose set-up failed.
C20_RunTestAfterSetupWithItsConnection ==
    /\ \A pp \in Plugins :
         callCount[pp]["setup_proxy"] =
           Cardinality({ k \in DOMAIN setupRes : k[1] = pp })
           + Cardinality({ rq \in SetupsInFlight : rq.plugin = pp })
    /\ pc = "executing" => \A rq \in SetupsInFlight : << CurPP, cur.p >> \notin DOMAIN setupRes
    /\ pc = "done" => DOMAIN setupRes = AllProxies
    /\ \A k \in DOMAIN runRes :
         /\ SetupOk(k[1], k[2])
         /\ runRes[k].conn = setupRes[<< k[1], k[2] >>].val
    /\ pc = "executing" => \A rq \in RunsInFlight :
         /\ SetupOk(CurPP, cur.p)
         /\ rq.params[2] = setupRes[<< CurPP, cur.p >>].val
    /\ \A k \in DOMAIN setupRes : ~setupRes[k].ok =>
         \A u \in DOMAIN runRes : << u[1], u[2] >> # k

\* two proxies were set up, a test was run against each of the two
\* connections, and the set-up of a third proxy failed
C20_Witness ==
    /\ pc = "done"
    /\ \E k1, k2 \in DOMAIN runRes :
         /\ << k1[1], k1[2] >> # << k2[1], k2[2] >>
         /\ runRes[k1].conn # runRes[k2].conn
    /\ \E k \in DOMAIN setupRes : ~setupRes[k].ok

\* C21: every set-up request outstanding is addressed to the plugin whose
\* parse_protocol answer holds the descriptor under the cursor and carries
\* that descriptor's content as answered; every run_test request
\* outstanding is addressed to the plugin whose tests answer lists the test
\* under the cursor at its position and carries that test's name, whoever
\* owns the proxy.
C21_CallsRoutedToOwner ==
    pc = "executing" =>
      /\ \A rq \in SetupsInFlight :
           /\ rq.plugin = ppOrder[cur.pp]
           /\ AnsweredOk(rq.plugin, "parse_protocol")
           /\ cur.p <= Len(answers[<< rq.plugin, "parse_protocol" >>].val)
           /\ rq.params = << answers[<< rq.plugin, "parse_protocol" >>].val[cur.p].content >>
           /\ rq.params[1][1] = rq.plugin
      /\ \A rq \in RunsInFlight :
           /\ rq.plugin = tpOrder[cur.tp]
           /\ AnsweredOk(rq.plugin, "tests")
           /\ cur.t <= Len(answers[<< rq.plugin, "tests" >>].val)
           /\ rq.params[1] = answers[<< rq.plugin, "tests" >>].val[cur.t].name

\* a run_test request is outstanding at a test provider that is not the
\* plugin of the proxy it runs against
C21_Witness ==
    /\ pc = "executing"
    /\ \E rq \in RunsInFlight :
         /\ rq.plugin # ppOrder[cur.pp]
         /\ rq.plugin = tpOrder[cur.tp]
         /\ ppOrder[cur.pp] \in DOMAIN testProviders

\* some request of method m has been sent
Called(m) == \E p \in Plugins : callCount[p][m] > 0
\* every plugin of the registry has answered discovery call m
SweepComplete(m) ==
    /\ \A p \in registry : Answered(p, m)
    /\ \A rq \in inflight : rq.cap # m

\* C22: while plugins are under construction (or a launcher has panicked)
\* no request of any kind has been sent; during proxy discovery every
\* configured plugin's construction has finished and no tests, set-up or
\* run_test request has been sent; during test discovery every loaded
\* plugin has answered parse_protocol and no set-up or run_test request has
\* been sent; from the traversal on every loaded plugin has answered both
\* sweeps; and no result tree exists before the traversal has ended (after
\* it, while main's locals are dropped, nothing is outstanding). So
\* while a construction or a discovery call is outstanding, no later phase
\* has started.
C22_PhasesAreStrict ==
    CASE pc \in {"loading", "panicked"} ->
           /\ \A m \in Methods : ~Called(m)
           /\ inflight = {}
           /\ output = EmptyMap /\ acc = NoAcc
      [] pc = "proxy_discovery" ->
           /\ \A p \in Plugins : lstate[p] = "done" /\ loadResult[p] = "taken"
           /\ ~Called("tests") /\ ~Called("setup_proxy") /\ ~Called("run_test")
           /\ output = EmptyMap /\ acc = NoAcc
      [] pc = "test_discovery" ->
           /\ \A p \in Plugins : lstate[p] = "done" /\ loadResult[p] = "taken"
           /\ SweepComplete("parse_protocol")
           /\ ~Called("setup_proxy") /\ ~Called("run_test")
           /\ output = EmptyMap /\ acc = NoAcc
      [] pc \in {"executing", "done"} ->
           /\ \A p \in Plugins : lstate[p] = "done" /\ loadResult[p] = "taken"
           /\ SweepComplete("parse_protocol")
           /\ SweepComplete("tests")
           /\ pc = "executing" => output = EmptyMap
      [] OTHER -> inflight = {}

\* a set-up request is outstanding; both plugins were loaded and each has
\* answered both sweeps, one of them with a failure
C22_Witness ==
    /\ pc = "executing"
    /\ SetupsInFlight # {}
    /\ registry = Plugins
    /\ \A p \in Plugins : Answered(p, "parse_protocol") /\ Answered(p, "tests")
    /\ \E p \in Plugins : ~AnsweredOk(p, "tests")

\* proxy i of pp was set up and no later proxy of its name in pp's
\* sequence was
LastSetupOk(pp, i) ==
    /\ setupRes[<< pp, i >>].ok
    /\ \A j \in (i + 1)..Len(proxyProviders[pp]) :
         proxyProviders[pp][j].name = proxyProviders[pp][i].name => ~setupRes[<< pp, j >>].ok
\* the run of test t of tp against proxy i of pp succeeded and no run of a
\* later test of its name in tp's sequence did
LastRunOk(pp, i, tp, t) ==
    /\ runRes[<< pp, i, tp, t >>].ok
    /\ \A j \in (t + 1)..Len(testProviders[tp]) :
         testProviders[tp][j].name = testProviders[tp][t].name => ~runRes[<< pp, i, tp, j >>].ok
\* proxies i < j of pp carry one name
SameNameProxies(pp, i, j) ==
    /\ i < j /\ j <= Len(proxyProviders[pp])
    /\ ProxyName(pp, i) = ProxyName(pp, j)
\* tests i < j of tp carry one name
SameNameTests(tp, i, j) ==
    /\ i < j /\ j <= Len(testProviders[tp])
    /\ TestName(tp, i) = TestName(tp, j)

\* C23: proxies (tests) of one provider that share a name are each called,
\* in sequence order: while a set-up request is outstanding, the proxies of
\* its provider that already have a result are exactly those before it.
\* Once the traversal is done, of two successes the one later in the
\* sequence carries the later connection (measurement), the entry under a
\* proxy name holds the test providers' maps of the last proxy of that name
\* that was set up, and the leaf under a test name
\* holds the measurement of the last test of that name that succeeded
\* against that proxy: a later success replaces an earlier one, a later
\* failure leaves the earlier success in place.
C23_LastSuccessWins ==
    /\ (pc = "executing" /\ inflight # {} /\ cur.conn = 0) =>
         \A i \in 1..Len(proxyProviders[CurPP]) :
           << CurPP, i >> \in DOMAIN setupRes <=> i < cur.p
    /\ pc = "done" =>
         \A pp \in DOMAIN proxyProviders : \A i \in 1..Len(proxyProviders[pp]) :
           /\ << pp, i >> \in DOMAIN setupRes
           /\ setupRes[<< pp, i >>].ok =>
                /\ \A j \in (i + 1)..Len(proxyProviders[pp]) :
                     setupRes[<< pp, j >>].ok =>
                       setupRes[<< pp, i >>].val < setupRes[<< pp, j >>].val
                /\ \A tp \in DOMAIN testProviders : \A t \in 1..Len(testProviders[tp]) :
                     /\ << pp, i, tp, t >> \in DOMAIN runRes
                     /\ \A j \in (t + 1)..Len(testProviders[tp]) :
                          (runRes[<< pp, i, tp, t >>].ok /\ runRes[<< pp, i, tp, j >>].ok) =>
                            runRes[<< pp, i, tp, t >>].val < runRes[<< pp, i, tp, j >>].val
           /\ (setupRes[<< pp, i >>].ok /\ LastSetupOk(pp, i)) =>
                /\ proxyProviders[pp][i].name \in DOMAIN output[pp]
                /\ DOMAIN output[pp][proxyProviders[pp][i].name] = DOMAIN testProviders
                /\ \A tp \in DOMAIN testProviders : \A t \in 1..Len(testProviders[tp]) :
                     LastRunOk(pp, i, tp, t) =>
                       /\ testProviders[tp][t].name
                            \in DOMAIN output[pp][proxyProviders[pp][i].name][tp]
                       /\ output[pp][proxyProviders[pp][i].name][tp][testProviders[tp][t].name]
                            = runRes[<< pp, i, tp, t >>].val

\* a finished run in which a provider has two proxies of one name, the
\* first set up and the second failed, and a test provider has two tests
\* of one name that both succeeded against the first proxy: the entry is
\* the first proxy's and its leaf is the second test's measurement
C23_Witness ==
    /\ pc = "done"
    /\ \E pp \in DOMAIN proxyProviders : \E tp \in DOMAIN testProviders :
         /\ SameNameProxies(pp, 1, 2)
         /\ SetupOk(pp, 1) /\ SetupFailed(pp, 2)
         /\ SameNameTests(tp, 1, 2)
         /\ RunOk(pp, 1, tp, 1) /\ RunOk(pp, 1, tp, 2)
         /\ output[pp][ProxyName(pp, 1)][tp][TestName(tp, 1)] = runRes[<< pp, 1, tp, 2 >>].val

\* a finished run in which both proxies of one name were set up and a test
\* succeeded against the first and failed against the second: the entry is
\* the second proxy's and holds no leaf for that test
C23_WitnessOverwritten ==
    /\ pc = "done"
    /\ \E pp \in DOMAIN proxyProviders : \E tp \in DOMAIN testProviders :
         /\ SameNameProxies(pp, 1, 2)
         /\ SetupOk(pp, 1) /\ SetupOk(pp, 2)
         /\ RunOk(pp, 1, tp, 1) /\ RunFailed(pp, 2, tp, 1)
         /\ ~HasLeaf(pp, ProxyName(pp, 1), tp, TestName(tp, 1))

\* the calls of plugin-hello's handler that returned a ConnectionDescriptor
ConfigureReturned == { c \in HelloCalls : configure[c].at = "returned" }
\* the gost process a returned ConnectionDescriptor refers to is running
RefersToLive(c) == \E k \in HelloCalls :
    ConnectionStringOf(k) = configure[c].socks5 /\ child[k] = "running"
\* children spawned by a handler that is still on its way to the swap
InHandler == { c \in HelloCalls : configure[c].at \in {"spawned", "matched", "locked"} }

\* C24: plugin-hello's HelloPlugin holds at most one child, the one of the
\* call that stored last; that child is never killed by the handler. Every
\* running child is either the stored one or still in the hands of a
\* handler that has not stored it yet, and the ConnectionDescriptor of
\* every returned call other than the one that stored last refers to no
\* running process: storing a child ends the child stored before.
C24_OnlyLastStoredChildLive ==
    pc = "hello" =>
      /\ helloPlugin.process # 0 =>
           /\ configure[helloPlugin.process].at \in {"swapped", "returned"}
           /\ child[helloPlugin.process] \in {"running", "exited"}
      /\ \A c \in HelloCalls :
           child[c] = "running" => (c = helloPlugin.process \/ c \in InHandler)
      /\ \A c \in ConfigureReturned : c # helloPlugin.process => ~RefersToLive(c)
      /\ (mutex = 0) <=> (\A c \in HelloCalls : configure[c].at \notin {"locked", "swapped"})

\* two calls have returned a ConnectionDescriptor; the child of the one
\* that stored last runs, the child of the other was killed
C24_Witness ==
    /\ pc = "hello"
    /\ \E c1, c2 \in ConfigureReturned :
         /\ c1 # c2
         /\ helloPlugin.process = c2
         /\ RefersToLive(c2)
         /\ child[c1] = "killed"
         /\ ~RefersToLive(c1)

\* two handlers overlap: one has returned and its child is stored, the
\* other holds a matched child it has not stored yet, both children run
C24_WitnessOverlap ==
    /\ pc = "hello"
    /\ \E c1 \in ConfigureReturned : \E c2 \in InHandler :
         /\ helloPlugin.process = c1
         /\ configure[c2].at = "matched"
         /\ child[c1] = "running" /\ child[c2] = "running"

====
